---------------------------- MODULE Spec2Model ----------------------------
(***************************************************************************)
(* A model of app.go (whoami / foobar-api): the health handler and its     *)
(* reader/writer lock, the payload generator fillContent, the data         *)
(* handler's size arithmetic, the websocket echo loop and the routing      *)
(* table registered in main.                                               *)
(*                                                                         *)
(* Each component has its own specification (SpecHealth, SpecFill,         *)
(* SpecData, SpecEcho, SpecRouter); a component's variables stay at their  *)
(* initial value under the other components' specifications.               *)
(***************************************************************************)
EXTENDS Integers, Sequences, FiniteSets, TLC

VARIABLES
    currentHealthState,  \* app.go:265  the package-level healthState
    mutexHealthState,    \* app.go:266  the sync.RWMutex
    hpc,                 \* position of each health request in healthHandler
    hreq,                \* the request each health task serves (method, body)
    statusCode,          \* healthHandler's local: decoded (POST) / read (GET)
    hresp,               \* what the client of each health task got back
    written,             \* history: codes whose store has completed
    lastSet,             \* history: the last completed store (code, body)
    atRead,              \* history: lastSet when a GET read the status code
    fillLen,             \* fillContent's argument
    fillOut,             \* fillContent's result, a function on 0..fillLen-1
    fillDone,            \* whether the call has returned
    dquery,              \* the query parameters of the /data request
    dlength,             \* the length dataHandler hands to fillContent
    dresp,               \* what the client of the /data request got back
    dpc,                 \* "idle" or "handle"
    epc,                 \* position of echoHandler: upgrade, read, write, done
    conn,                \* the echo connection: connecting, open, closed
    sent,                \* history: the frames the peer has sent, in order
    nread,               \* how many of them ReadMessage has returned
    message,             \* echoHandler's locals messageType and p
    outbound,            \* the frames written back, in order
    rmethod,             \* the method of the request being routed
    rpath,               \* its path, as segments
    routed,              \* the handler the mux chose for it
    rpc                  \* "idle", "dispatch" or "done"

healthVars == <<currentHealthState, mutexHealthState, hpc, hreq, statusCode,
                hresp, written, lastSet, atRead>>

fillVars == <<fillLen, fillOut, fillDone>>

dataVars == <<dquery, dlength, dresp, dpc>>

echoVars == <<epc, conn, sent, nread, message, outbound>>

routerVars == <<rmethod, rpath, routed, rpc>>

vars == <<healthVars, fillVars, dataVars, echoVars, routerVars>>

\* what each component's steps leave alone
outsideHealth == <<fillVars, dataVars, echoVars, routerVars>>

outsideFill == <<healthVars, dataVars, echoVars, routerVars>>

outsideData == <<healthVars, fillVars, echoVars, routerVars>>

outsideEcho == <<healthVars, fillVars, dataVars, routerVars>>

outsideRouter == <<healthVars, fillVars, dataVars, echoVars>>

-----------------------------------------------------------------------------
(* Bounds of the model *)

\* number of concurrently served /health requests (one task per request)
NumProcs == 2

Procs == 1..NumProcs

\* largest length handed to fillContent (two full turns of the charset)
MaxFillLen == 60

\* number of frames the peer sends on the echo connection
MaxFrames == 3

\* number of segments of a request path
MaxSegments == 3

-----------------------------------------------------------------------------
(* Characters and small helpers *)

Digits == <<"0", "1", "2", "3", "4", "5", "6", "7", "8", "9">>

IsDigit(c) == \E i \in 1..10 : Digits[i] = c

DigitVal(c) == (CHOOSE i \in 1..10 : Digits[i] = c) - 1

\* encoding/json scanner.go isSpace
IsSpace(c) == c \in {" ", "\t", "\r", "\n"}

\* s[i] with the end of input read as a space, as Decoder.readValue feeds
\* the scanner one ' ' at io.EOF
At(s, i) == IF i <= Len(s) THEN s[i] ELSE " "

RECURSIVE SkipSpace(_, _)
SkipSpace(s, i) ==
    IF i <= Len(s) /\ IsSpace(s[i]) THEN SkipSpace(s, i + 1) ELSE i

RECURSIVE DecimalValue(_, _, _, _)
\* the value of the digits s[i..j-1], accumulated left to right
DecimalValue(s, i, j, acc) ==
    IF i >= j THEN acc
    ELSE DecimalValue(s, i + 1, j, acc * 10 + DigitVal(s[i]))


-----------------------------------------------------------------------------
(* encoding/json: json.NewDecoder(req.Body).Decode(&statusCode), app.go:273 *)
(* A body is a sequence of one-character strings.                          *)

NumEnd(i, int) == [err |-> "", end |-> i, isInt |-> int]

NumErr(s, i) ==
    [err |-> IF i > Len(s) THEN "unexpected EOF" ELSE "invalid character",
     end |-> i, isInt |-> FALSE]

RECURSIVE NumScan(_, _, _)
\* The scanner's number states (scanner.go stateNeg, state0, state1, stateDot,
\* stateDot0, stateE, stateESign, stateE0) from position i on.  A top-level
\* value ends at the first character that cannot continue it, whatever that
\* character is: stateEndTop records an error for it but answers scanEnd, and
\* readValue resets the scanner on the next call.
NumScan(s, i, st) ==
    LET c == At(s, i) IN
    CASE st = "neg" ->
            IF c = "0" THEN NumScan(s, i + 1, "0")
            ELSE IF IsDigit(c) THEN NumScan(s, i + 1, "1")
            ELSE NumErr(s, i)
      [] st = "1" ->
            IF IsDigit(c) THEN NumScan(s, i + 1, "1") ELSE NumScan(s, i, "0")
      [] st = "0" ->
            IF c = "." THEN NumScan(s, i + 1, "dot")
            ELSE IF c \in {"e", "E"} THEN NumScan(s, i + 1, "e")
            ELSE NumEnd(i, TRUE)
      [] st = "dot" ->
            IF IsDigit(c) THEN NumScan(s, i + 1, "dot0") ELSE NumErr(s, i)
      [] st = "dot0" ->
            IF IsDigit(c) THEN NumScan(s, i + 1, "dot0")
            ELSE IF c \in {"e", "E"} THEN NumScan(s, i + 1, "e")
            ELSE NumEnd(i, FALSE)
      [] st = "e" ->
            IF c \in {"+", "-"} THEN NumScan(s, i + 1, "esign")
            ELSE NumScan(s, i, "esign")
      [] st = "esign" ->
            IF IsDigit(c) THEN NumScan(s, i + 1, "e0") ELSE NumErr(s, i)
      [] OTHER ->  \* "e0"
            IF IsDigit(c) THEN NumScan(s, i + 1, "e0") ELSE NumEnd(i, FALSE)

\* a literal (null, true, false) spelled out from position i
HasLiteral(s, i, lit) ==
    /\ i + Len(lit) - 1 <= Len(s)
    /\ \A k \in 1..Len(lit) : s[i + k - 1] = lit[k]

\* the first position after i holding a closing quote, or 0
ClosingQuote(s, i) ==
    IF \E j \in (i + 1)..Len(s) : s[j] = "\""
    THEN CHOOSE j \in (i + 1)..Len(s) :
            s[j] = "\"" /\ \A k \in (i + 1)..(j - 1) : s[k] # "\""
    ELSE 0

DecodeOk(v) == [err |-> "", val |-> v]

DecodeErr(e) == [err |-> e, val |-> 0]

\* strconv.ParseInt of an integer literal s[i..j-1] (with an optional '-'),
\* as decode.go literalStore calls it for a reflect.Int target.  The bodies of
\* the model are short: no literal reaches the 64-bit range check.
LiteralInt(s, i, j) ==
    IF s[i] = "-" THEN 0 - DecimalValue(s, i + 1, j, 0)
    ELSE DecimalValue(s, i, j, 0)

\* Decode into `var statusCode int` (zero before the call): the first JSON
\* value of the stream is read and stored; what follows it is left unread.
\*   - empty or all-space body: io.EOF
\*   - null: "has no effect" on a non-pointer target, and is no error
\*   - an integer literal: its value
\*   - a number with a fraction or exponent, true, false, a string:
\*     UnmarshalTypeError
\* Arrays and objects are not among the modelled bodies.
Decode(s) ==
    LET i == SkipSpace(s, 1)
        c == At(s, i)
    IN  IF i > Len(s) THEN DecodeErr("EOF")
        ELSE IF c = "-" \/ IsDigit(c) THEN
            LET r == NumScan(s, i + 1,
                             IF c = "-" THEN "neg" ELSE IF c = "0" THEN "0" ELSE "1")
            IN  IF r.err # "" THEN DecodeErr(r.err)
                ELSE IF ~r.isInt THEN DecodeErr("cannot unmarshal number")
                ELSE DecodeOk(LiteralInt(s, i, r.end))
        ELSE IF c = "n" THEN
            IF HasLiteral(s, i, <<"n", "u", "l", "l">>) THEN DecodeOk(0)
            ELSE IF Len(s) - i + 1 < 4
                    /\ HasLiteral(<<"n", "u", "l", "l">>, 1, SubSeq(s, i, Len(s)))
                 THEN DecodeErr("unexpected EOF")
            ELSE DecodeErr("invalid character")
        ELSE IF c = "t" /\ HasLiteral(s, i, <<"t", "r", "u", "e">>) THEN
            DecodeErr("cannot unmarshal bool")
        ELSE IF c = "f" /\ HasLiteral(s, i, <<"f", "a", "l", "s", "e">>) THEN
            DecodeErr("cannot unmarshal bool")
        ELSE IF c = "\"" THEN
            IF ClosingQuote(s, i) = 0 THEN DecodeErr("unexpected EOF")
            ELSE DecodeErr("cannot unmarshal string")
        ELSE DecodeErr("invalid character")

-----------------------------------------------------------------------------
(* net/http response writing, as healthHandler uses it *)

NoResp == [status |-> 0, body |-> "", sent |-> FALSE, aborted |-> FALSE]

\* http.Error(w, text, code), app.go:274: header code, body text
HttpError(text, code) ==
    [status |-> code, body |-> text, sent |-> FALSE, aborted |-> FALSE]

\* w.WriteHeader(code), app.go:286.  net/http checkWriteHeaderCode panics for
\* a code outside 100..999 (the server recovers the panic and drops the
\* connection); a 1xx code other than 101 is sent as an informational header
\* and leaves the final status unset; any other code is the response status.
WriteHeader(code) ==
    IF code < 100 \/ code > 999
    THEN [status |-> 0, body |-> "", sent |-> FALSE, aborted |-> TRUE]
    ELSE IF code \in 100..199 /\ code # 101
    THEN [status |-> 0, body |-> "", sent |-> FALSE, aborted |-> FALSE]
    ELSE [status |-> code, body |-> "", sent |-> FALSE, aborted |-> FALSE]

\* the server finishing the response after the handler returned: an unset
\* status is sent as 200; a panicking handler's connection is closed
Finish(r) ==
    IF r.aborted THEN [r EXCEPT !.sent = TRUE]
    ELSE [r EXCEPT !.sent = TRUE,
                   !.status = IF r.status = 0 THEN 200 ELSE r.status]

-----------------------------------------------------------------------------
(* The health handler, app.go:260-288 *)

\* http.StatusOK, the initial healthState (app.go:265)
StatusOK == 200

\* http.StatusBadRequest (app.go:274)
StatusBadRequest == 400

\* The request bodies the model posts to /health.
Bodies ==
    { <<>>,                     \* empty body
      <<"5", "0", "3">>,        \* 503
      <<"0">>,                  \* 0
      <<"n", "u", "l", "l">>,   \* null
      <<"1", ".", "5">>,        \* 1.5
      <<"a", "b", "c">>,        \* abc
      <<"7", " ", "x">> }       \* 7 followed by text

Methods == {"GET", "POST"}

NoReq == [method |-> "", body |-> <<>>]

InitialLastSet == [val |-> StatusOK, body |-> <<>>, byPost |-> FALSE]

\* sync.RWMutex as healthHandler uses it.  w is the task that owns the
\* writer mutex (0: none); from the moment a writer owns it, the pending
\* writer is announced and RLock blocks.  writing: that writer has seen the
\* last reader leave and holds the lock.  readers: the tasks holding a read
\* lock.
HealthInit ==
    /\ currentHealthState = [StatusCode |-> StatusOK]
    /\ mutexHealthState = [w |-> 0, writing |-> FALSE, readers |-> {}]
    /\ hpc = [p \in Procs |-> "idle"]
    /\ hreq = [p \in Procs |-> NoReq]
    /\ statusCode = [p \in Procs |-> 0]
    /\ hresp = [p \in Procs |-> NoResp]
    /\ written = {}
    /\ lastSet = InitialLastSet
    /\ atRead = [p \in Procs |-> InitialLastSet]

HoldsWrite(p) == mutexHealthState.w = p /\ mutexHealthState.writing

HoldsRead(p) == p \in mutexHealthState.readers

\* The server starts a task for an inbound /health request.
HealthRequest(p) ==
    /\ hpc[p] = "idle"
    /\ \E m \in Methods, b \in Bodies :
          /\ m = "GET" => b = <<>>
          /\ hreq' = [hreq EXCEPT ![p] = [method |-> m, body |-> b]]
          /\ hpc' = [hpc EXCEPT ![p] = IF m = "POST" THEN "decode" ELSE "rlock"]
    /\ statusCode' = [statusCode EXCEPT ![p] = 0]
    /\ hresp' = [hresp EXCEPT ![p] = NoResp]
    /\ atRead' = [atRead EXCEPT ![p] = InitialLastSet]
    /\ UNCHANGED <<currentHealthState, mutexHealthState, written, lastSet>>
    /\ UNCHANGED outsideHealth

\* app.go:273-276: decode the body; on an error answer 400 and return
PostDecode(p) ==
    /\ hpc[p] = "decode"
    /\ LET r == Decode(hreq[p].body) IN
          IF r.err # ""
          THEN /\ hresp' = [hresp EXCEPT ![p] = HttpError(r.err, StatusBadRequest)]
               /\ hpc' = [hpc EXCEPT ![p] = "respond"]
               /\ UNCHANGED statusCode
          ELSE /\ statusCode' = [statusCode EXCEPT ![p] = r.val]
               /\ hpc' = [hpc EXCEPT ![p] = "lock"]
               /\ UNCHANGED hresp
    /\ UNCHANGED <<currentHealthState, mutexHealthState, hreq, written, lastSet,
                   atRead>>
    /\ UNCHANGED outsideHealth

\* whether Lock() can take the writer mutex
CanLock(m) == m.w = 0

\* app.go:280 mutexHealthState.Lock(), first half: take the writer mutex and
\* announce the pending writer
PostLock(p) ==
    /\ hpc[p] = "lock"
    /\ CanLock(mutexHealthState)
    /\ mutexHealthState' = [mutexHealthState EXCEPT !.w = p]
    /\ hpc' = [hpc EXCEPT ![p] = "lockwait"]
    /\ UNCHANGED <<currentHealthState, hreq, statusCode, hresp, written, lastSet,
                   atRead>>
    /\ UNCHANGED outsideHealth

\* a Lock() that does not wait for the active readers
ReadersNotAwaited(m) == TRUE

\* whether the pending writer may go on: every active reader has left
ReadersGone(m) == m.readers = {}

\* app.go:280 mutexHealthState.Lock(), second half: wait for the active
\* readers to leave
PostLockWait(p) ==
    /\ hpc[p] = "lockwait"
    /\ ReadersGone(mutexHealthState)
    /\ mutexHealthState' = [mutexHealthState EXCEPT !.writing = TRUE]
    /\ hpc' = [hpc EXCEPT ![p] = "store"]
    /\ UNCHANGED <<currentHealthState, hreq, statusCode, hresp, written, lastSet,
                   atRead>>
    /\ UNCHANGED outsideHealth

\* A store caught half way: the high part of the new value over the low
\* byte of the old one.
Torn(old, new) == (new \div 256) * 256 + (old % 256)

\* app.go:282 currentHealthState.StatusCode = statusCode, a plain store that
\* nothing but the lock makes atomic: first half
PostStore(p) ==
    /\ hpc[p] = "store"
    /\ currentHealthState' =
          [StatusCode |-> Torn(currentHealthState.StatusCode, statusCode[p])]
    /\ hpc' = [hpc EXCEPT ![p] = "stored"]
    /\ UNCHANGED <<mutexHealthState, hreq, statusCode, hresp, written, lastSet,
                   atRead>>
    /\ UNCHANGED outsideHealth

\* app.go:282, the store completes
PostStored(p) ==
    /\ hpc[p] = "stored"
    /\ currentHealthState' = [StatusCode |-> statusCode[p]]
    /\ written' = written \cup {statusCode[p]}
    /\ lastSet' = [val |-> statusCode[p], body |-> hreq[p].body, byPost |-> TRUE]
    /\ hpc' = [hpc EXCEPT ![p] = "unlock"]
    /\ UNCHANGED <<mutexHealthState, hreq, statusCode, hresp, atRead>>
    /\ UNCHANGED outsideHealth

\* app.go:281 the deferred mutexHealthState.Unlock(), run as the handler returns
PostUnlock(p) ==
    /\ hpc[p] = "unlock"
    /\ mutexHealthState' = [mutexHealthState EXCEPT !.w = 0, !.writing = FALSE]
    /\ hpc' = [hpc EXCEPT ![p] = "respond"]
    /\ UNCHANGED <<currentHealthState, hreq, statusCode, hresp, written, lastSet,
                   atRead>>
    /\ UNCHANGED outsideHealth

\* an RLock() that gives way to a writer holding the lock only, not to one
\* waiting for it (a reader-preferring lock)
CanRLockBeforeWaitingWriter(m) == ~m.writing

\* whether RLock() can enter: no writer holds or waits for the lock
CanRLock(m) == m.w = 0

\* app.go:284 mutexHealthState.RLock()
GetRLock(p) ==
    /\ hpc[p] = "rlock"
    /\ CanRLock(mutexHealthState)
    /\ mutexHealthState' =
          [mutexHealthState EXCEPT !.readers = mutexHealthState.readers \cup {p}]
    /\ hpc' = [hpc EXCEPT ![p] = "writeHeader"]
    /\ UNCHANGED <<currentHealthState, hreq, statusCode, hresp, written, lastSet,
                   atRead>>
    /\ UNCHANGED outsideHealth

\* app.go:286 w.WriteHeader(currentHealthState.StatusCode).  A panic of
\* WriteHeader unwinds through the deferred RUnlock like a return does.
GetWriteHeader(p) ==
    /\ hpc[p] = "writeHeader"
    /\ statusCode' = [statusCode EXCEPT ![p] = currentHealthState.StatusCode]
    /\ hresp' = [hresp EXCEPT ![p] = WriteHeader(currentHealthState.StatusCode)]
    /\ atRead' = [atRead EXCEPT ![p] = lastSet]
    /\ hpc' = [hpc EXCEPT ![p] = "runlock"]
    /\ UNCHANGED <<currentHealthState, mutexHealthState, hreq, written, lastSet>>
    /\ UNCHANGED outsideHealth

\* app.go:285 the deferred mutexHealthState.RUnlock()
GetRUnlock(p) ==
    /\ hpc[p] = "runlock"
    /\ mutexHealthState' =
          [mutexHealthState EXCEPT !.readers = mutexHealthState.readers \ {p}]
    /\ hpc' = [hpc EXCEPT ![p] = "respond"]
    /\ UNCHANGED <<currentHealthState, hreq, statusCode, hresp, written, lastSet,
                   atRead>>
    /\ UNCHANGED outsideHealth

\* healthHandler has returned (app.go:288): the server completes the response
HealthRespond(p) ==
    /\ hpc[p] = "respond"
    /\ hresp' = [hresp EXCEPT ![p] = Finish(hresp[p])]
    /\ hpc' = [hpc EXCEPT ![p] = "idle"]
    /\ UNCHANGED <<currentHealthState, mutexHealthState, hreq, statusCode, written,
                   lastSet, atRead>>
    /\ UNCHANGED outsideHealth

\* the steps of healthHandler itself, for one task
HandlerStep(p) ==
    \/ PostDecode(p)
    \/ PostLockWait(p)
    \/ PostStore(p)
    \/ PostStored(p)
    \/ PostUnlock(p)
    \/ GetRLock(p)
    \/ GetWriteHeader(p)
    \/ GetRUnlock(p)
    \/ HealthRespond(p)

HealthNext ==
    \E p \in Procs :
        \/ HealthRequest(p)
        \/ PostLock(p)
        \/ HandlerStep(p)

-----------------------------------------------------------------------------
(* The payload generator, app.go:290-304 *)

Upper == <<"A", "B", "C", "D", "E", "F", "G", "H", "I", "J", "K", "L", "M",
           "N", "O", "P", "Q", "R", "S", "T", "U", "V", "W", "X", "Y", "Z">>

Lower == <<"a", "b", "c", "d", "e", "f", "g", "h", "i", "j", "k", "l", "m",
           "n", "o", "p", "q", "r", "s", "t", "u", "v", "w", "x", "y", "z">>

\* app.go:291
charset == <<"-">> \o Upper

\* app.go:299-300, the byte written over both ends
Sentinel == "|"

\* app.go:294-296: b[i] = charset[i%len(charset)], i counted from 0
CycleByte(i) == charset[(i % Len(charset)) + 1]

\* a fillContent that marks the first byte only
fillContentOpenEnd(length) ==
    LET b == [i \in 0..(length - 1) |-> CycleByte(i)]
    IN  IF length > 0 THEN [b EXCEPT ![0] = Sentinel] ELSE b

\* app.go:292-301 for length >= 0.  The slice b is a function on
\* 0..length-1, as in the source.
fillContent(length) ==
    LET b == [i \in 0..(length - 1) |-> CycleByte(i)]
    IN  IF length > 0
        THEN [b EXCEPT ![0] = Sentinel, ![length - 1] = Sentinel]
        ELSE b

FillInit ==
    /\ fillLen \in 0..MaxFillLen
    /\ fillOut = <<>>
    /\ fillDone = FALSE

FillIdle ==
    /\ fillLen = 0
    /\ fillOut = <<>>
    /\ fillDone = FALSE

\* a call fillContent(fillLen)
FillCall ==
    /\ ~fillDone
    /\ fillOut' = fillContent(fillLen)
    /\ fillDone' = TRUE
    /\ UNCHANGED fillLen
    /\ UNCHANGED outsideFill

\* the next call, with another length
FillAgain ==
    /\ fillDone
    /\ fillLen' \in 0..MaxFillLen
    /\ fillOut' = <<>>
    /\ fillDone' = FALSE
    /\ UNCHANGED outsideFill

FillNext == FillCall \/ FillAgain

-----------------------------------------------------------------------------
(* 64-bit integers.  A number is a little-endian sequence of base-256      *)
(* limbs; an int64 is 8 limbs in two's complement, so that size *= KB      *)
(* wraps modulo 2^64 exactly as the Go multiplication does.                *)

LimbBase == 2 ^ 8

\* limbs of an int64
Int64Limbs == 64 \div 8

\* limbs wide enough for the exact product of two int64 magnitudes
WideLimbs == 2 * Int64Limbs

Zero(n) == [i \in 1..n |-> 0]

RECURSIVE NatLimbs(_, _)
\* the n-limb form of a small natural number
NatLimbs(v, n) ==
    IF n = 0 THEN <<>> ELSE <<v % LimbBase>> \o NatLimbs(v \div LimbBase, n - 1)

\* 2^e as n limbs (0 when e is beyond them)
Pow2(e, n) ==
    [i \in 1..n |-> IF i - 1 = e \div 8 THEN 2 ^ (e % 8) ELSE 0]

Limb(a, i) == IF i >= 1 /\ i <= Len(a) THEN a[i] ELSE 0

RECURSIVE ColumnSum(_, _, _, _)
\* sum of a[i] * b[k + 1 - i] for i = from..k: column k of the product
ColumnSum(a, b, k, from) ==
    IF from > k THEN 0
    ELSE Limb(a, from) * Limb(b, k + 1 - from) + ColumnSum(a, b, k, from + 1)

RECURSIVE MulFrom(_, _, _, _, _)
MulFrom(a, b, n, k, carry) ==
    IF k > n THEN <<>>
    ELSE LET t == ColumnSum(a, b, k, 1) + carry
         IN  <<t % LimbBase>> \o MulFrom(a, b, n, k + 1, t \div LimbBase)

\* the low n limbs of a * b: with n = Int64Limbs the wrapping int64 product
Mul(a, b, n) == MulFrom(a, b, n, 1, 0)

RECURSIVE AddSmallFrom(_, _, _)
AddSmallFrom(a, k, carry) ==
    IF k > Len(a) THEN <<>>
    ELSE LET t == a[k] + carry
         IN  <<t % LimbBase>> \o AddSmallFrom(a, k + 1, t \div LimbBase)

\* a + d for a small d, in Len(a) limbs
AddSmall(a, d) == AddSmallFrom(a, 1, d)

\* a as n limbs: cut, or zero-extended
Resize(a, n) == [i \in 1..n |-> Limb(a, i)]

IsZero(a) == \A i \in 1..Len(a) : a[i] = 0

\* the sign bit of an int64
IsNegative(a) == a[Int64Limbs] >= 128

\* whether magnitude a (any width) is below 2^e
Below2(a, e) ==
    \A i \in 1..Len(a) :
        /\ i - 1 > e \div 8 => a[i] = 0
        /\ i - 1 = e \div 8 => a[i] < 2 ^ (e % 8)

-----------------------------------------------------------------------------
(* strconv.ParseInt(s, 10, 64), app.go:135 *)

RECURSIVE DigitsValue(_, _, _)
\* the value of the digits s[i..], in WideLimbs limbs
DigitsValue(s, i, acc) ==
    IF i > Len(s) THEN acc
    ELSE LET next == AddSmall(Mul(acc, NatLimbs(10, 1), WideLimbs), DigitVal(s[i]))
         IN  \* the comparison has TLC evaluate next before the recursive call
             IF next = next THEN DigitsValue(s, i + 1, next) ELSE next

\* ParseInt: an optional sign, then decimal digits only; a syntax error for
\* anything else, a range error outside -2^63 .. 2^63-1.  The result is
\* [err, neg, mag] with mag the magnitude in Int64Limbs limbs.
ParseInt(s) ==
    LET signed == Len(s) > 0 /\ s[1] \in {"+", "-"}
        neg    == Len(s) > 0 /\ s[1] = "-"
        ds     == IF signed THEN SubSeq(s, 2, Len(s)) ELSE s
    IN  IF Len(ds) = 0 \/ \E i \in 1..Len(ds) : ~IsDigit(ds[i])
        THEN [err |-> "syntax", neg |-> FALSE, mag |-> Zero(Int64Limbs)]
        ELSE LET un == DigitsValue(ds, 1, Zero(WideLimbs))
                 inRange == \/ Below2(un, 63)
                            \/ neg /\ un = Pow2(63, WideLimbs)
             IN  IF inRange
                 THEN [err |-> "", neg |-> neg, mag |-> Resize(un, Int64Limbs)]
                 ELSE [err |-> "range", neg |-> neg, mag |-> Zero(Int64Limbs)]

-----------------------------------------------------------------------------
(* The data handler, app.go:131-172 *)

\* The size parameters of the model's requests.
SizeParams ==
    { <<>>,                                          \* missing
      <<"a", "b", "c">>,                             \* unparsable
      <<"1", "0">>,
      <<"-", "5">>,
      <<"0">>,
      <<"+", "7">>,
      <<"1", "2", "3", "4", "5">>,
      <<"8", "3", "8", "8", "6", "0", "8">>,         \* 2^23
      <<"9", "0", "0", "7", "1", "9", "9", "2", "5", "4", "7", "4", "0",
        "9", "9", "2">>,                             \* 2^53
      <<"6", "0", "0", "0", "0", "0", "0", "0", "0", "0", "0", "0", "0",
        "0", "0", "0">>,                             \* 6 * 10^15
      <<"9", "2", "2", "3", "3", "7", "2", "0", "3", "6", "8", "5", "4",
        "7", "7", "5", "8", "0", "7">>,              \* 2^63 - 1
      <<"9", "2", "2", "3", "3", "7", "2", "0", "3", "6", "8", "5", "4",
        "7", "7", "5", "8", "0", "8">>,              \* 2^63: out of range
      <<"-", "9", "2", "2", "3", "3", "7", "2", "0", "3", "6", "8", "5", "4",
        "7", "7", "5", "8", "0", "8">> }             \* -2^63

UnitParams ==
    { <<>>, <<"k", "b">>, <<"K", "B">>, <<"M", "b">>, <<"g", "b">>,
      <<"t", "b">>, <<"T", "B">>, <<"b">>, <<"k", "i", "b">> }

AttachmentParams == {"", "true", "1", "yes"}

\* app.go:28-31: KB int64 = 1 << (10 * iota), for iota = 1, 2, 3, 4
UnitShift(iota) == 10 * iota

KB == Pow2(UnitShift(1), Int64Limbs)

MB == Pow2(UnitShift(2), Int64Limbs)

GB == Pow2(UnitShift(3), Int64Limbs)

TB == Pow2(UnitShift(4), Int64Limbs)

\* strings.ToLower on the characters the model uses
ToLowerChar(c) ==
    IF \E i \in 1..26 : Upper[i] = c
    THEN Lower[CHOOSE i \in 1..26 : Upper[i] = c]
    ELSE c

ToLower(s) == [i \in 1..Len(s) |-> ToLowerChar(s[i])]

\* strconv.ParseBool, app.go:155: the error is replaced by false
ParseBoolOrFalse(s) == s \in {"1", "t", "T", "TRUE", "true", "True"}

\* app.go:135-141: the size, with the default and the clamp
SizeOf(sizeParam) ==
    LET r == ParseInt(sizeParam)
    IN  IF r.err # "" THEN NatLimbs(1, Int64Limbs)
        ELSE IF r.neg /\ ~IsZero(r.mag) THEN Zero(Int64Limbs)
        ELSE r.mag

\* app.go:143-153: the multiplier of the unit; none for any other unit
Multiplier(unitParam) ==
    LET u == ToLower(unitParam)
    IN  CASE u = <<"k", "b">> -> KB
          [] u = <<"m", "b">> -> MB
          [] u = <<"g", "b">> -> GB
          [] u = <<"t", "b">> -> TB
          [] OTHER -> NatLimbs(1, Int64Limbs)

\* app.go:146-152 size *= unit: the int64 product, wrapping modulo 2^64
ScaledSize(sizeParam, unitParam) ==
    Mul(SizeOf(sizeParam), Multiplier(unitParam), Int64Limbs)

NoQuery == [size |-> <<>>, unit |-> <<>>, attachment |-> ""]

NoData == [served |-> FALSE, panicked |-> FALSE, length |-> Zero(Int64Limbs),
           ends |-> <<>>, disposition |-> ""]

\* app.go:160-171 for a length: make([]byte, length) panics on a negative
\* length (the server recovers the panic and drops the connection);
\* otherwise the whole content is served, as an attachment or copied.  The
\* body is kept as its length and its two end bytes.  Memory is not
\* modelled: every non-negative length is allocated.  The requests carry
\* no Range or conditional header, so http.ServeContent serves the whole
\* content too.
ServeData(length, attachment) ==
    IF IsNegative(length)
    THEN [served |-> TRUE, panicked |-> TRUE, length |-> Zero(Int64Limbs),
          ends |-> <<>>, disposition |-> ""]
    ELSE [served |-> TRUE, panicked |-> FALSE, length |-> length,
          ends |-> IF IsZero(length) THEN <<>> ELSE <<Sentinel, Sentinel>>,
          disposition |-> IF attachment THEN "Attachment" ELSE ""]

DataInit ==
    /\ dquery = NoQuery
    /\ dlength = Zero(Int64Limbs)
    /\ dresp = NoData
    /\ dpc = "idle"

\* a GET /data request arrives with its query parameters
DataRequest ==
    /\ dpc = "idle"
    /\ \E sz \in SizeParams, u \in UnitParams, a \in AttachmentParams :
          dquery' = [size |-> sz, unit |-> u, attachment |-> a]
    /\ dlength' = Zero(Int64Limbs)
    /\ dresp' = NoData
    /\ dpc' = "handle"
    /\ UNCHANGED outsideData

\* dataHandler, app.go:131-172
dataHandler ==
    /\ dpc = "handle"
    /\ LET size == ScaledSize(dquery.size, dquery.unit)
       IN  /\ dlength' = size
           /\ dresp' = ServeData(size, ParseBoolOrFalse(dquery.attachment))
    /\ dpc' = "idle"
    /\ UNCHANGED dquery
    /\ UNCHANGED outsideData

DataNext == DataRequest \/ dataHandler

-----------------------------------------------------------------------------
(* The echo handler, app.go:102-121 *)

\* gorilla/websocket message types, as ReadMessage returns them
MessageTypes == {"text", "binary"}

\* The payloads of the model's frames (byte sequences).
Payloads == { <<>>, <<104, 105>>, <<0, 255>> }

Frames == [type : MessageTypes, payload : Payloads]

NoFrame == [type |-> "", payload |-> <<>>]

EchoInit ==
    /\ epc = "upgrade"
    /\ conn = "connecting"
    /\ sent = <<>>
    /\ nread = 0
    /\ message = NoFrame
    /\ outbound = <<>>

\* app.go:103-107: upgrader.Upgrade fails (logged), the handler returns
UpgradeFail ==
    /\ epc = "upgrade"
    /\ conn' = "closed"
    /\ epc' = "done"
    /\ UNCHANGED <<sent, nread, message, outbound>>
    /\ UNCHANGED outsideEcho

\* app.go:103: upgrader.Upgrade succeeds, the connection is open
UpgradeOk ==
    /\ epc = "upgrade"
    /\ conn' = "open"
    /\ epc' = "read"
    /\ UNCHANGED <<sent, nread, message, outbound>>
    /\ UNCHANGED outsideEcho

\* the peer sends a data frame on the open connection
PeerSend ==
    /\ conn = "open"
    /\ Len(sent) < MaxFrames
    /\ \E f \in Frames : sent' = Append(sent, f)
    /\ UNCHANGED <<epc, conn, nread, message, outbound>>
    /\ UNCHANGED outsideEcho

\* the frame conn.ReadMessage returns: the oldest one not read yet
NextFrame(frames, n) == frames[n + 1]

\* app.go:110: conn.ReadMessage returns the next frame
ReadMessage ==
    /\ epc = "read"
    /\ nread < Len(sent)
    /\ message' = NextFrame(sent, nread)
    /\ nread' = nread + 1
    /\ epc' = "write"
    /\ UNCHANGED <<conn, sent, outbound>>
    /\ UNCHANGED outsideEcho

\* app.go:110-113: conn.ReadMessage fails (read error, peer close): return
ReadError ==
    /\ epc = "read"
    /\ conn' = "closed"
    /\ epc' = "done"
    /\ UNCHANGED <<sent, nread, message, outbound>>
    /\ UNCHANGED outsideEcho

\* a write that sends every payload as a binary frame
EchoedAsBinary(f) == [type |-> "binary", payload |-> f.payload]

\* the frame conn.WriteMessage(messageType, p) puts on the wire
Echoed(f) == [type |-> f.type, payload |-> f.payload]

\* app.go:115-116: printBinary(p) logs the bytes, conn.WriteMessage writes
\* the frame back
WriteMessage ==
    /\ epc = "write"
    /\ outbound' = Append(outbound, Echoed(message))
    /\ epc' = "read"
    /\ UNCHANGED <<conn, sent, nread, message>>
    /\ UNCHANGED outsideEcho

\* app.go:116-119: conn.WriteMessage fails: return
WriteError ==
    /\ epc = "write"
    /\ conn' = "closed"
    /\ epc' = "done"
    /\ UNCHANGED <<sent, nread, message, outbound>>
    /\ UNCHANGED outsideEcho

EchoNext ==
    \/ UpgradeFail
    \/ UpgradeOk
    \/ PeerSend
    \/ ReadMessage
    \/ ReadError
    \/ WriteMessage
    \/ WriteError

-----------------------------------------------------------------------------
(* The routing table, app.go:55-60, served by http.DefaultServeMux *)

\* A request path is the sequence of its segments after the leading slash:
\* "/" is <<"">>, "/data" is <<"data">>, "/data/" is <<"data", "">>,
\* "//x" is <<"", "x">>.
Segments == {"data", "echo", "bench", "api", "health", "x", "", ".", ".."}

RECURSIVE PathsUpTo(_)
PathsUpTo(n) ==
    IF n = 0 THEN {}
    ELSE PathsUpTo(n - 1) \cup [1..n -> Segments]

RequestMethods == {"GET", "POST", "CONNECT"}

\* app.go:55-60: pattern -> handler.  "/" is the only pattern that ends in a
\* slash, that is, the only subtree pattern.
Patterns ==
    { [pattern |-> <<"data">>,   handler |-> "dataHandler"],
      [pattern |-> <<"echo">>,   handler |-> "echoHandler"],
      [pattern |-> <<"bench">>,  handler |-> "benchHandler"],
      [pattern |-> <<"">>,       handler |-> "whoamiHandler"],
      [pattern |-> <<"api">>,    handler |-> "apiHandler"],
      [pattern |-> <<"health">>, handler |-> "healthHandler"] }

RECURSIVE CleanFrom(_, _, _)
\* path.Clean on a rooted path, segment by segment: empty and "." segments
\* are dropped, ".." drops the segment before it (nothing at the root)
CleanFrom(path, i, stack) ==
    IF i > Len(path) THEN stack
    ELSE IF path[i] \in {"", "."} THEN CleanFrom(path, i + 1, stack)
    ELSE IF path[i] = ".."
         THEN CleanFrom(path, i + 1,
                        IF stack = <<>> THEN stack
                        ELSE SubSeq(stack, 1, Len(stack) - 1))
    ELSE CleanFrom(path, i + 1, Append(stack, path[i]))

\* net/http cleanPath: path.Clean, with the trailing slash put back
cleanPath(path) ==
    LET np == CleanFrom(path, 1, <<>>)
    IN  IF np = <<>> THEN <<"">>
        ELSE IF path[Len(path)] = "" THEN Append(np, "")
        ELSE np

\* the number of segments a pattern fixes
PatternDepth(pattern) ==
    IF pattern[Len(pattern)] = "" THEN Len(pattern) - 1 ELSE Len(pattern)

\* a match that takes every pattern for a prefix
MatchesPrefix(pattern, path) ==
    LET fixed == PatternDepth(pattern)
    IN  Len(path) >= fixed /\ \A i \in 1..fixed : path[i] = pattern[i]

\* whether a pattern matches a path: a pattern without a trailing slash
\* matches that path only, the subtree pattern "/" every path
Matches(pattern, path) ==
    IF pattern[Len(pattern)] = ""
    THEN /\ Len(path) >= Len(pattern)
         /\ \A i \in 1..(Len(pattern) - 1) : path[i] = pattern[i]
    ELSE path = pattern

\* ServeMux.handler: the handler of the pattern equal to the path if there
\* is one, else of the longest matching subtree pattern, else NotFound
MuxHandler(path) ==
    LET exact == {e \in Patterns : e.pattern = path}
        ms    == {e \in Patterns : Matches(e.pattern, path)}
    IN  IF exact # {} THEN (CHOOSE e \in exact : TRUE).handler
        ELSE IF ms = {} THEN "NotFoundHandler"
        ELSE (CHOOSE e \in ms :
                \A o \in ms : PatternDepth(o.pattern) <= PatternDepth(e.pattern)).handler

\* ServeMux.Handler: a CONNECT request is matched as it is; any other
\* request whose path is not in clean form is answered by a permanent
\* redirect to the clean path, and is given to no registered handler.
\* answer: what the mux itself answers ("" when a registered handler does).
Route(method, path) ==
    IF method # "CONNECT" /\ cleanPath(path) # path
    THEN [handler |-> "RedirectHandler", answer |-> "redirect",
          location |-> cleanPath(path)]
    ELSE [handler |-> MuxHandler(path),
          answer |-> IF MuxHandler(path) = "NotFoundHandler"
                     THEN "not found" ELSE "",
          location |-> <<>>]

NoRoute == [handler |-> "", answer |-> "", location |-> <<>>]

RouterInit ==
    /\ rmethod = "GET"
    /\ rpath = <<"">>
    /\ routed = NoRoute
    /\ rpc = "idle"

\* a request arrives
RouterRequest ==
    /\ rpc = "idle"
    /\ rmethod' \in RequestMethods
    /\ rpath' \in PathsUpTo(MaxSegments)
    /\ routed' = NoRoute
    /\ rpc' = "dispatch"
    /\ UNCHANGED outsideRouter

\* the server's mux picks the handler of the request
RouterDispatch ==
    /\ rpc = "dispatch"
    /\ routed' = Route(rmethod, rpath)
    /\ rpc' = "done"
    /\ UNCHANGED <<rmethod, rpath>>
    /\ UNCHANGED outsideRouter

\* the request is over; the mux keeps nothing of it
RouterDone ==
    /\ rpc = "done"
    /\ rmethod' = "GET"
    /\ rpath' = <<"">>
    /\ routed' = NoRoute
    /\ rpc' = "idle"
    /\ UNCHANGED outsideRouter

RouterNext == RouterRequest \/ RouterDispatch \/ RouterDone

-----------------------------------------------------------------------------
(* Specifications: one per component *)

InitHealth == HealthInit /\ FillIdle /\ DataInit /\ EchoInit /\ RouterInit

InitFill == FillInit /\ HealthInit /\ DataInit /\ EchoInit /\ RouterInit

InitData == DataInit /\ HealthInit /\ FillIdle /\ EchoInit /\ RouterInit

InitEcho == EchoInit /\ HealthInit /\ FillIdle /\ DataInit /\ RouterInit

InitRouter == RouterInit /\ HealthInit /\ FillIdle /\ DataInit /\ EchoInit

SpecHealth == InitHealth /\ [][HealthNext]_vars

\* The scheduler runs every started handler: each step of healthHandler is
\* weakly fair.  sync.Mutex hands the writer mutex to a waiter that has
\* waited long (starvation mode), so taking it is strongly fair.  Requests
\* arrive as the clients please: HealthRequest is not fair.
HealthFairness ==
    \A p \in Procs : WF_vars(HandlerStep(p)) /\ SF_vars(PostLock(p))

FairSpecHealth == SpecHealth /\ HealthFairness

SpecFill == InitFill /\ [][FillNext]_vars

SpecData == InitData /\ [][DataNext]_vars

SpecEcho == InitEcho /\ [][EchoNext]_vars

SpecRouter == InitRouter /\ [][RouterNext]_vars

-----------------------------------------------------------------------------
(* What the claims speak of *)

\* a body with the JSON white space around it removed
Trimmed(s) ==
    LET keep == {i \in 1..Len(s) : ~IsSpace(s[i])}
    IN  IF keep = {} THEN <<>>
        ELSE SubSeq(s, CHOOSE i \in keep : \A j \in keep : i <= j,
                       CHOOSE i \in keep : \A j \in keep : j <= i)

Unsigned(t) == IF Len(t) > 0 /\ t[1] = "-" THEN Tail(t) ELSE t

\* the body is one JSON number without fraction or exponent, and nothing else
IsJSONInteger(s) ==
    LET d == Unsigned(Trimmed(s))
    IN  /\ Len(d) > 0
        /\ \A i \in 1..Len(d) : IsDigit(d[i])
        /\ Len(d) > 1 => d[1] # "0"

RECURSIVE DigitString(_)
DigitString(d) ==
    IF d = <<>> THEN 0
    ELSE 10 * DigitString(SubSeq(d, 1, Len(d) - 1)) + DigitVal(d[Len(d)])

\* the integer a JSON integer body denotes
JSONIntegerValue(s) ==
    LET t == Trimmed(s)
    IN  IF t[1] = "-" THEN 0 - DigitString(Unsigned(t)) ELSE DigitString(t)

\* a health request of the given method has been answered
Answered(p, method) ==
    hreq[p].method = method /\ hpc[p] = "idle" /\ hresp[p].sent

\* a GET /health has read the status code
HasRead(p) ==
    hreq[p].method = "GET" /\ hpc[p] \in {"runlock", "respond", "idle"}

HoldsNoLock(p) == ~HoldsRead(p) /\ ~HoldsWrite(p)

-----------------------------------------------------------------------------
(* C1: whatever way POST /health and GET /health requests interleave, the  *)
(* status code a GET reads is the initial 200 or a code that some POST has *)
(* completely stored; it is never a half-written value.                    *)
C1_NoTornRead ==
    \A p \in Procs : HasRead(p) => statusCode[p] \in {StatusOK} \cup written

\* a GET has read 503 while another task's POST waits for the readers to leave
C1_Witness ==
    \E p, q \in Procs :
        /\ hreq[p].method = "GET" /\ hpc[p] = "runlock" /\ statusCode[p] = 503
        /\ hpc[q] = "lockwait"

(* C2: for every integer c, a POST /health with the JSON integer c as body *)
(* stores c and is answered 200 with no body, and a GET /health that reads *)
(* the status after that store (no other store in between) is answered     *)
(* with HTTP status c and an empty body.                                   *)
C2_AnyIntegerRoundTrip ==
    \A p \in Procs :
        /\ (hreq[p].method = "POST" /\ IsJSONInteger(hreq[p].body)
               /\ hpc[p] = "unlock")
           => currentHealthState.StatusCode = JSONIntegerValue(hreq[p].body)
        /\ (Answered(p, "POST") /\ IsJSONInteger(hreq[p].body))
           => hresp[p] = [status |-> 200, body |-> "", sent |-> TRUE,
                          aborted |-> FALSE]
        /\ (Answered(p, "GET") /\ atRead[p].byPost
               /\ IsJSONInteger(atRead[p].body))
           => hresp[p] = [status |-> JSONIntegerValue(atRead[p].body),
                          body |-> "", sent |-> TRUE, aborted |-> FALSE]

(* C3: a POST /health whose body is not a JSON integer is answered 400     *)
(* with the decode error as body; it never takes the write lock and never  *)
(* stores a status code.                                                   *)
C3_MalformedBodyRejected ==
    \A p \in Procs :
        (hreq[p].method = "POST" /\ ~IsJSONInteger(hreq[p].body))
        => /\ hpc[p] \in {"decode", "respond", "idle"}
           /\ hpc[p] \in {"respond", "idle"}
              => hresp[p].status = 400 /\ hresp[p].body # ""

(* C9: no health request holds the read lock or the write lock while it    *)
(* reads the request body or writes the response status to the client.     *)
C9_NoLockAcrossIO ==
    \A p \in Procs :
        hpc[p] \in {"decode", "writeHeader", "respond"} => HoldsNoLock(p)

(* C10: under fair scheduling every health request has released its lock   *)
(* when it returns, whichever way it returns, and every POST /health with  *)
(* a valid body that waits for the write lock gets it and completes.       *)
C10_WritersNotStarved ==
    /\ [](\A p \in Procs : hpc[p] \in {"respond", "idle"} => HoldsNoLock(p))
    /\ \A p \in Procs : (hpc[p] = "lock") ~> (hpc[p] = "idle")

\* a POST waits for the write lock while a GET whose WriteHeader panicked
\* still holds the read lock
C10_Witness ==
    \E p, q \in Procs :
        /\ hpc[p] = "lockwait"
        /\ hpc[q] = "runlock" /\ HoldsRead(q) /\ hresp[q].aborted

-----------------------------------------------------------------------------
\* "-" followed by the 26 capital letters
ExpectedPattern ==
    <<"-", "A", "B", "C", "D", "E", "F", "G", "H", "I", "J", "K", "L", "M",
      "N", "O", "P", "Q", "R", "S", "T", "U", "V", "W", "X", "Y", "Z">>

(* C4: for n >= 0, fillContent(n) has exactly n bytes; for n > 0 the first *)
(* and the last byte are '|'; byte i with 0 < i < n-1 is the (i mod 27)-th *)
(* character of "-ABC...Z".                                                *)
C4_FillContent ==
    fillDone =>
        /\ DOMAIN fillOut = 0..(fillLen - 1)
        /\ fillLen > 0 => fillOut[0] = "|" /\ fillOut[fillLen - 1] = "|"
        /\ \A i \in 1..(fillLen - 2) : fillOut[i] = ExpectedPattern[(i % 27) + 1]

\* a payload of 56 bytes: the pattern has wrapped twice and byte 54 is "-"
C4_Witness ==
    /\ fillDone /\ fillLen = 56
    /\ fillOut[0] = "|" /\ fillOut[1] = "A" /\ fillOut[27] = "-"
    /\ fillOut[54] = "-" /\ fillOut[55] = "|"

-----------------------------------------------------------------------------
\* 1024^k for kb, mb, gb, tb in any case (k = 1..4), 1 for any other unit
ClaimedMultiplier(unit) ==
    LET u == ToLower(unit)
    IN  CASE u = <<"k", "b">> -> Pow2(10, WideLimbs)
          [] u = <<"m", "b">> -> Pow2(20, WideLimbs)
          [] u = <<"g", "b">> -> Pow2(30, WideLimbs)
          [] u = <<"t", "b">> -> Pow2(40, WideLimbs)
          [] OTHER -> NatLimbs(1, WideLimbs)

\* size * multiplier as a mathematical integer (no wrap-around)
ClaimedLength(q) ==
    Mul(Resize(SizeOf(q.size), WideLimbs), ClaimedMultiplier(q.unit), WideLimbs)

(* C5: the body of GET /data has exactly size * multiplier bytes (size     *)
(* defaulted to 1, clamped to 0), and a non-empty body starts and ends     *)
(* with '|'.                                                               *)
C5_BodyLength ==
    dresp.served =>
        /\ ~dresp.panicked
        /\ Resize(dresp.length, WideLimbs) = ClaimedLength(dquery)
        /\ ~IsZero(dresp.length) => dresp.ends = <<"|", "|">>

(* C6: the length dataHandler hands to fillContent is never negative,      *)
(* whatever the size and unit parameters are.                              *)
C6_LengthNonNegative ==
    dresp.served => ~IsNegative(dlength)

-----------------------------------------------------------------------------
(* C7: on an open echo connection the frames written back are, at every    *)
(* moment, a prefix of the frames received, each with the payload and the  *)
(* type of the frame at the same position; every frame read is written     *)
(* back before the next one is read.                                       *)
C7_EchoInOrder ==
    /\ nread <= Len(sent)
    /\ Len(outbound) <= nread /\ nread <= Len(outbound) + 1
    /\ epc = "read" => Len(outbound) = nread
    /\ \A k \in 1..Len(outbound) :
          /\ outbound[k].payload = sent[k].payload
          /\ outbound[k].type = sent[k].type

\* a text frame and then a binary frame with another payload came back
C7_Witness ==
    /\ Len(outbound) >= 2
    /\ outbound[1].type = "text" /\ outbound[2].type = "binary"
    /\ outbound[1].payload # outbound[2].payload
    /\ epc = "read"

-----------------------------------------------------------------------------
\* the handler main registers for a path, whoami for every other path
RegisteredHandler(path) ==
    CASE path = <<"health">> -> "healthHandler"
      [] path = <<"data">>   -> "dataHandler"
      [] path = <<"echo">>   -> "echoHandler"
      [] path = <<"bench">>  -> "benchHandler"
      [] path = <<"api">>    -> "apiHandler"
      [] OTHER               -> "whoamiHandler"

\* no "." or ".." segment, and no empty segment but a last one
IsCleanForm(path) ==
    \A i \in 1..Len(path) :
        /\ path[i] \notin {".", ".."}
        /\ path[i] = "" => i = Len(path)

(* C8 as stated: every request is given to the handler registered for its  *)
(* path, or to whoami when none is; none is answered 404.                  *)
C8_EveryPathDispatched ==
    rpc = "done" =>
        /\ routed.handler = RegisteredHandler(rpath)
        /\ routed.answer # "not found"

(* C8, amended: a request whose path is in clean form, and every CONNECT   *)
(* request, is given to the handler registered for its path, or to whoami  *)
(* when none is; any other request is answered by a redirect to a clean    *)
(* path; none is answered 404.                                             *)
C8_CleanPathsDispatched ==
    rpc = "done" =>
        /\ routed.answer # "not found"
        /\ routed.handler # "NotFoundHandler"
        /\ IF rmethod = "CONNECT" \/ IsCleanForm(rpath)
           THEN routed.handler = RegisteredHandler(rpath)
           ELSE /\ routed.handler = "RedirectHandler"
                /\ routed.answer = "redirect"
                /\ IsCleanForm(routed.location)

\* GET /data/x was given to whoami
C8_Witness ==
    /\ rpc = "done" /\ rmethod = "GET" /\ rpath = <<"data", "x">>
    /\ routed.handler = "whoamiHandler"

=============================================================================
